---- MODULE Spec2Model ----
(***************************************************************************)
(* Price-estimation consensus behaviours                                   *)
(* (packages/valory/skills/price_estimation_abci/behaviours.py).           *)
(*                                                                         *)
(* Every agent runs the same finite-state behaviour: nine phase handlers   *)
(* chained by DONE_EVENT transitions.  A handler builds a payload, hands   *)
(* it to the consensus substrate, waits until the round of its phase is    *)
(* over and then signals completion.  The substrate, the chain client, the *)
(* signing oracle and the price source are external: they are modelled as  *)
(* nondeterministic steps and replies.                                     *)
(***************************************************************************)
EXTENDS Integers, Sequences, FiniteSets, TLC

VARIABLES
    state_classes,      \* the list handed to _register_states
    fsm,                \* what _register_states registered
    max_participants,   \* params.consensus_params (number of agents)
    current,            \* current[a]: the active phase of a's behaviour
    pc,                 \* pc[a]: a's position inside the active handler
    outbox,             \* outbox[a]: the payload a is submitting, or None
    pending,            \* pending[a]: the external request a waits on, or None
    current_round_id,   \* the substrate's current round
    round_payloads,     \* payloads admitted to the current round, in order
    period_state,       \* the replicated period state
    chain,              \* chain client: transactions sent, in order
    history,            \* history[a]: phases a's behaviour activated, in order
    completed,          \* completed[a]: phases of a that called set_done, in order
    observed,           \* observed[a]: rounds a itself saw ended at a barrier
    built,              \* built[a]: (type, sender) of the payloads a constructed
    raised,             \* raised[a]: the exception that stopped a, or None
    call_failed,        \* call_failed[a]: the phase in which an external call of a failed, or None
    faults              \* external anomalies so far

vars == <<state_classes, fsm, max_participants, current, pc, outbox, pending,
          current_round_id, round_payloads, period_state, chain, history,
          completed, observed, built, raised, call_failed, faults>>

-----------------------------------------------------------------------------
(* Bounds *)

MaxParticipants == 3    \* agents are the addresses 1..max_participants
MaxFaults == 1          \* failing or malformed external replies per run
MaxListLen == 3         \* longest list handed to _register_states on its own
MaxLag == 1             \* rounds the substrate may run ahead of a live agent

None == "None"

Agents == 1..MaxParticipants

-----------------------------------------------------------------------------
(* The phases (state_id of each class) and the rounds *)

DONE_EVENT == "done"

InitialDelayState_state_id == "initial_delay"
RegistrationBehaviour_state_id == "register"
DeploySafeBehaviour_state_id == "deploy_safe"
ObserveBehaviour_state_id == "observe"
EstimateBehaviour_state_id == "estimate"
TransactionHashBehaviour_state_id == "tx_hash"
SignatureBehaviour_state_id == "sign"
FinalizeBehaviour_state_id == "finalize"
EndBehaviour_state_id == "end"

\* The list setup() hands to _register_states.
SetupStateClasses ==
    << InitialDelayState_state_id, RegistrationBehaviour_state_id,
       DeploySafeBehaviour_state_id, ObserveBehaviour_state_id,
       EstimateBehaviour_state_id, TransactionHashBehaviour_state_id,
       SignatureBehaviour_state_id, FinalizeBehaviour_state_id,
       EndBehaviour_state_id >>

StateIds == { SetupStateClasses[i] : i \in 1..Len(SetupStateClasses) }

RegistrationRound == "registration"
DeploySafeRound == "deploy_safe"
CollectObservationRound == "collect_observation"
EstimateConsensusRound == "estimate_consensus"
TxHashRound == "tx_hash"
CollectSignatureRound == "collect_signature"
FinalizationRound == "finalization"
ConsensusReachedRound == "consensus_reached"

\* The order in which the substrate opens the rounds.
RoundOrder ==
    << RegistrationRound, DeploySafeRound, CollectObservationRound,
       EstimateConsensusRound, TxHashRound, CollectSignatureRound,
       FinalizationRound, ConsensusReachedRound >>

RoundIndex(r) == CHOOSE i \in 1..Len(RoundOrder) : RoundOrder[i] = r

-----------------------------------------------------------------------------
(* PriceEstimationConsensusBehaviour._register_states *)

EmptyFsm == [ states |-> <<>>, initial |-> None, transitions |-> <<>>,
              error |-> None ]

\* As RegisterTransitions, with a transition from the last state back to
\* the first.
RegisterTransitionsCyclic(classes) ==
    [ index \in 1..Len(classes) |->
        << classes[index], DONE_EVENT, classes[(index % Len(classes)) + 1] >> ]

\* As RegisterTransitions, with before and after exchanged in the call.
RegisterTransitionsSwapped(classes) ==
    [ index \in 1..(Len(classes) - 1) |->
        << classes[index + 1], DONE_EVENT, classes[index] >> ]

\* for index in range(len(state_classes) - 1): register_transition(...)
RegisterTransitions(classes) ==
    [ index \in 1..(Len(classes) - 1) |->
        << classes[index], DONE_EVENT, classes[index + 1] >> ]

\* As RegisterStates, without the enforce: the empty list goes through.
RegisterStatesNoEnforce(classes) ==
    [ states |-> classes,
      initial |-> IF Len(classes) = 0 THEN None ELSE classes[1],
      transitions |-> RegisterTransitions(classes),
      error |-> None ]

\* enforce(len != 0), register the first as initial, the others after it,
\* then one transition per consecutive pair.
RegisterStates(classes) ==
    IF Len(classes) = 0
    THEN [ EmptyFsm EXCEPT !.error = "ValueError" ]
    ELSE [ states |-> classes,
           initial |-> classes[1],
           transitions |-> RegisterTransitions(classes),
           error |-> None ]

\* FSMBehaviour: the state the event leads to from `name`, or None.
FsmTarget(f, name, event) ==
    LET hits == { i \in 1..Len(f.transitions) :
                    /\ f.transitions[i][1] = name
                    /\ f.transitions[i][2] = event }
    IN IF hits = {} THEN None
       ELSE f.transitions[CHOOSE i \in hits : \A j \in hits : i <= j][3]


-----------------------------------------------------------------------------
(* Strings of hexadecimal digits and bytes *)

HexDigits == "0123456789abcdef"

\* The value of each digit.
HexValues ==
    [ c \in { SubSeq(HexDigits, i, i) : i \in 1..Len(HexDigits) } |->
        (CHOOSE i \in 1..Len(HexDigits) : SubSeq(HexDigits, i, i) = c) - 1 ]

IsHexChar(c) == c \in DOMAIN HexValues

HexVal(c) == HexValues[c]

\* binascii.unhexlify accepts an even number of hexadecimal digits only.
CanUnhexlify(s) ==
    /\ Len(s) % 2 = 0
    /\ \A i \in 1..Len(s) : IsHexChar(SubSeq(s, i, i))

\* The byte each pair of digits stands for.
ByteValues ==
    [ pair \in { high \o low : high, low \in DOMAIN HexValues } |->
        16 * HexVal(SubSeq(pair, 1, 1)) + HexVal(SubSeq(pair, 2, 2)) ]

\* binascii.unhexlify: one byte per pair of digits.
Unhexlify(s) ==
    [ i \in 1..(Len(s) \div 2) |-> ByteValues[SubSeq(s, 2 * i - 1, 2 * i)] ]

\* The digit of value n (mod 16).
HexDigitAt(n) == SubSeq(HexDigits, (n % 16) + 1, (n % 16) + 1)

RECURSIVE Repeat(_, _)
Repeat(s, n) ==
    IF n = 0 THEN ""
    ELSE IF n % 2 = 0 THEN LET half == Repeat(s, n \div 2) IN half \o half
    ELSE s \o Repeat(s, n - 1)

-----------------------------------------------------------------------------
(* Payloads (models/payloads.py) *)

NoPayload == [ type |-> "None" ]
RegistrationPayload(sender) == [ type |-> "Registration", sender |-> sender ]
DeploySafePayload(sender, contract_address) ==
    [ type |-> "DeploySafe", sender |-> sender,
      safe_contract_address |-> contract_address ]
ObservationPayloadAsRegistration(sender, observation) ==
    [ type |-> "Registration", sender |-> sender, observation |-> observation ]
ObservationPayload(sender, observation) ==
    [ type |-> "Observation", sender |-> sender, observation |-> observation ]
EstimatePayload(sender, estimate) ==
    [ type |-> "Estimate", sender |-> sender, estimate |-> estimate ]
TransactionHashPayload(sender, tx_hash) ==
    [ type |-> "TxHash", sender |-> sender, tx_hash |-> tx_hash ]
SignaturePayload(sender, signature) ==
    [ type |-> "Signature", sender |-> sender, signature |-> signature ]
FinalizationTxPayload(sender, tx_hash) ==
    [ type |-> "FinalizationTx", sender |-> sender, tx_hash |-> tx_hash ]

\* The round each payload type is collected in.
PayloadRound(payload) ==
    CASE payload.type = "Registration" -> RegistrationRound
      [] payload.type = "DeploySafe" -> DeploySafeRound
      [] payload.type = "Observation" -> CollectObservationRound
      [] payload.type = "Estimate" -> EstimateConsensusRound
      [] payload.type = "TxHash" -> TxHashRound
      [] payload.type = "Signature" -> CollectSignatureRound
      [] payload.type = "FinalizationTx" -> FinalizationRound
      [] OTHER -> None

-----------------------------------------------------------------------------
(* External collaborators: what they may answer *)

NoAddress == 0
NoRequest == [ kind |-> "None" ]

\* Price source: the quotes get_price may return to an agent.  Agents ask
\* at different moments and may be quoted different prices.
Prices(a) == { 100 + 3 * (a % 2) }

\* Chain client: (gas estimated by buildTransaction, gas recommended by the
\* Safe) for the finalization transaction.
GasQuotes == { << 100000, 150000 >>, << 100000, 300000 >> }

\* The address get_deploy_safe_tx computes for the contract `deployer` deploys.
DeployedAddress(deployer) == 100 + deployer

SIGNATURE_LENGTH == 65

\* Signing oracle: a 65-byte signature of `signer`, "0x" and 130 digits.
GoodSignatures ==
    [ signer \in Agents |->
        "0x" \o Repeat(HexDigitAt(signer) \o "a", SIGNATURE_LENGTH) ]

GoodSignature(signer) == GoodSignatures[signer]

\* Replies of the oracle that are not such a signature: the prefix missing,
\* and too short with an odd number of digits.
BadSignatures(signer) ==
    { SubSeq(GoodSignature(signer), 3, Len(GoodSignature(signer))),
      "0xabc" }

\* The hash of the Safe transaction carrying `data` to `safe`, as
\* safe_tx.safe_tx_hash.hex() prints it: "0x" and 64 digits.
SafeTxHashHex(safe, data) ==
    "0x" \o Repeat(HexDigitAt(safe + data.num + data.den), 64)

-----------------------------------------------------------------------------
(* Period state (models/rounds.py) *)

NoEstimate == [ num |-> 0, den |-> 1 ]

InitialPeriodState ==
    [ participants |-> {},
      sorted_addresses |-> <<>>,
      safe_sender_address |-> NoAddress,
      safe_contract_address |-> NoAddress,
      participant_to_observations |-> <<>>,
      most_voted_estimate |-> NoEstimate,
      safe_tx_hash |-> "",
      participant_to_signature |-> <<>>,
      final_tx_hash |-> 0 ]

\* sorted(participants): ascending addresses.
RECURSIVE SortedAddresses(_)
SortedAddresses(S) ==
    IF S = {} THEN <<>>
    ELSE LET least == CHOOSE x \in S : \A y \in S : x <= y
         IN <<least>> \o SortedAddresses(S \ {least})

\* consensus_params.two_thirds_threshold: ceil(max_participants * 2 / 3)
two_thirds_threshold(n) == (2 * n + 2) \div 3

\* A dict kept as the sequence of its (key, value) items in insertion order.
Keys(items) == { items[i][1] : i \in 1..Len(items) }
Lookup(items, key) == items[CHOOSE i \in 1..Len(items) : items[i][1] = key][2]

\* period_state.encoded_estimate: the call data carrying the agreed estimate.
encoded_estimate(ps) == ps.most_voted_estimate

Senders(payloads) == { payloads[i].sender : i \in 1..Len(payloads) }


-----------------------------------------------------------------------------
(* Pure steps of the handlers *)

\* As TxHashIsSender and as FinalizeIsSender, with the test inverted.
TxHashIsSenderInverted(a, ps) == a # ps.safe_sender_address
FinalizeIsSenderInverted(a, ps) == a # ps.safe_sender_address

\* As DeployIsSender, with the test inverted.
DeployIsSenderInverted(a, ps) == a # ps.safe_sender_address

\* The designated-sender test of each of the three phases that branch on it.
DeployIsSender(a, ps) == ~(a # ps.safe_sender_address)
TxHashIsSender(a, ps) == ~(a # ps.safe_sender_address)
FinalizeIsSender(a, ps) == ~(a # ps.safe_sender_address)

\* As DeploySafeTxArgs, with every owner required to sign.
DeploySafeTxArgsAllOwners(a, ps, n) ==
    [ deployer |-> a, owners |-> ps.participants,
      threshold |-> Cardinality(ps.participants) ]

\* _send_deploy_transaction: what is handed to get_deploy_safe_tx.
DeploySafeTxArgs(a, ps, n) ==
    [ deployer |-> a, owners |-> ps.participants,
      threshold |-> two_thirds_threshold(n) ]

\* As EstimateObservations, reading the first payload held again in place of
\* the last.
EstimateObservationsFirstTwice(held) ==
    [ i \in 1..Len(held) |-> held[IF i = Len(held) THEN 1 ELSE i].observation ]

\* EstimateBehaviour: the observation of each payload held, in the order held.
EstimateObservations(held) == [ i \in 1..Len(held) |-> held[i].observation ]

RECURSIVE Sum(_)
Sum(seq) == IF seq = <<>> THEN 0 ELSE Head(seq) + Sum(Tail(seq))

RECURSIVE GCD(_, _)
GCD(m, n) == IF n = 0 THEN m ELSE GCD(n, m % n)

\* estimator.aggregate: the mean, as a fraction in lowest terms.
Aggregate(observations) ==
    LET total == Sum(observations)
        count == Len(observations)
        g == GCD(total, count)
    IN [ num |-> total \div g, den |-> count \div g ]

\* TransactionHashBehaviour.sender_act: safe_tx.safe_tx_hash.hex()[2:]
StripPrefix(hex) == SubSeq(hex, 3, Len(hex))

\* SignatureBehaviour._get_safe_tx_signature: signature_hex[2:]
SignatureHex(body) == SubSeq(body, 3, Len(body))

\* As SignerOrder, by descending address.
SignerOrderDescending(ps) ==
    [ i \in 1..Len(ps.sorted_addresses) |->
        ps.sorted_addresses[Len(ps.sorted_addresses) + 1 - i] ]

\* FinalizeBehaviour._send_safe_transaction: the signers, in the order the
\* loop visits them.
SignerOrder(ps) == ps.sorted_addresses

\* ... and the loop itself: a signer without a signature is passed over.
RECURSIVE ComposeSignature(_, _)
ComposeSignature(signers, signatures) ==
    IF signers = <<>> THEN <<>>
    ELSE IF Head(signers) \notin Keys(signatures)
         THEN ComposeSignature(Tail(signers), signatures)
         ELSE Unhexlify(Lookup(signatures, Head(signers)))
                \o ComposeSignature(Tail(signers), signatures)

\* As CanComposeSignature, with the signature of every signer looked up:
\* a signer without one raises KeyError.
CanComposeSignatureAllSigned(signers, signatures) ==
    \A i \in 1..Len(signers) :
        /\ signers[i] \in Keys(signatures)
        /\ CanUnhexlify(Lookup(signatures, signers[i]))

\* unhexlify raises binascii.Error on a signature it cannot decode.
CanComposeSignature(signers, signatures) ==
    \A i \in 1..Len(signers) :
        signers[i] \in Keys(signatures) =>
            CanUnhexlify(Lookup(signatures, signers[i]))

\* As FinalGas, without the margin added to the estimate.
FinalGasNoMargin(gas, recommended) ==
    IF gas >= recommended THEN gas ELSE recommended

\* transaction_dict["gas"] = Wei(max(gas + 75000, recommended_gas()))
FinalGas(gas, recommended) ==
    IF gas + 75000 >= recommended THEN gas + 75000 ELSE recommended

\* get_transaction_count: transactions `a` has sent so far.
TransactionCount(log, a) ==
    Cardinality({ i \in 1..Len(log) : log[i].from = a })

-----------------------------------------------------------------------------
(* Steps every handler shares (BaseState) *)

is_round_ended(round_id) == current_round_id # round_id

CanFault == faults < MaxFaults

\* A payload is built and _send_transaction starts submitting it.
Submit(a, payload) ==
    /\ pc' = [pc EXCEPT ![a] = "send"]
    /\ outbox' = [outbox EXCEPT ![a] = payload]
    /\ built' = [built EXCEPT ![a] = Append(@, << payload.type, payload.sender >>)]
    /\ pending' = [pending EXCEPT ![a] = NoRequest]
    /\ UNCHANGED <<current, history, completed, observed, raised>>

\* _send_transaction gives up once its stop condition holds.
SendTransactionStopped(a, stop_condition) ==
    /\ pc[a] = "send"
    /\ stop_condition
    /\ pc' = [pc EXCEPT ![a] = "wait"]
    /\ outbox' = [outbox EXCEPT ![a] = NoPayload]
    /\ UNCHANGED <<current, history, completed, observed, raised, built, pending>>

\* set_done, and FSMBehaviour.act in the same tick: the state that just ran
\* is done, so its DONE_EVENT transition is taken, or the behaviour stops
\* when it has none.
SetDone(a) ==
    LET target == FsmTarget(fsm, current[a], DONE_EVENT)
    IN /\ current' = [current EXCEPT ![a] = target]
       /\ pc' = [pc EXCEPT ![a] = IF target = None THEN "off" ELSE "start"]
       /\ history' = [history EXCEPT ![a] =
                         IF target = None THEN @ ELSE Append(@, target)]
       /\ completed' = [completed EXCEPT ![a] = Append(@, current[a])]

\* wait_until_round_end returns; the handler logs and calls set_done.
WaitUntilRoundEnd(a, round_id) ==
    /\ pc[a] = "wait"
    /\ is_round_ended(round_id)
    /\ observed' = [observed EXCEPT ![a] = @ \cup {round_id}]
    /\ SetDone(a)
    /\ UNCHANGED <<raised, built, pending, outbox>>

\* The branch of an agent that is not the designated sender: log only.
NotSenderAct(a) ==
    /\ pc' = [pc EXCEPT ![a] = "wait"]
    /\ UNCHANGED <<current, history, completed, observed, raised, built, pending, outbox>>

\* The handler suspends on an external request.
Request(a, request) ==
    /\ pc' = [pc EXCEPT ![a] = "reply"]
    /\ pending' = [pending EXCEPT ![a] = request]
    /\ UNCHANGED <<current, history, completed, observed, raised, built, outbox>>

\* An exception leaves async_act: nothing of the handler runs after it.
Raise(a, exception) ==
    /\ pc' = [pc EXCEPT ![a] = "failed"]
    /\ raised' = [raised EXCEPT ![a] = exception]
    /\ pending' = [pending EXCEPT ![a] = NoRequest]
    /\ UNCHANGED <<current, history, completed, observed, built, outbox>>

\* An external call of `a` fails: the collaborator answers with an error.
CallFails(a) ==
    /\ faults' = faults + 1
    /\ call_failed' = [call_failed EXCEPT ![a] = current[a]]

regVars == <<state_classes, fsm, max_participants>>
substrateVars == <<current_round_id, round_payloads, period_state>>


-----------------------------------------------------------------------------
(* The nine handlers *)

\* As EstimateBehaviour_round, naming the round after the one it should.
EstimateBehaviour_round_next == TxHashRound

\* As ObserveBehaviour_round, naming the round after the one it should.
ObserveBehaviour_round_next == EstimateConsensusRound

\* The round each handler hands to is_round_ended and wait_until_round_end.
RegistrationBehaviour_round == RegistrationRound
DeploySafeBehaviour_round == DeploySafeRound
ObserveBehaviour_round == CollectObservationRound
EstimateBehaviour_round == EstimateConsensusRound
TransactionHashBehaviour_round == TxHashRound
SignatureBehaviour_round == CollectSignatureRound
FinalizeBehaviour_round == FinalizationRound

\* As ObserveBehaviour_stop_condition, when no stop_condition is handed to
\* _send_transaction: its default never holds.
ObserveBehaviour_stop_condition_default == FALSE

\* stop_condition = self.is_round_ended(<round>.round_id), as each handler
\* hands it to _send_transaction.
RegistrationBehaviour_stop_condition == is_round_ended(RegistrationRound)
DeploySafeBehaviour_stop_condition == is_round_ended(DeploySafeRound)
ObserveBehaviour_stop_condition == is_round_ended(CollectObservationRound)
EstimateBehaviour_stop_condition == is_round_ended(EstimateConsensusRound)
TransactionHashBehaviour_stop_condition == is_round_ended(TxHashRound)
SignatureBehaviour_stop_condition == is_round_ended(CollectSignatureRound)
FinalizeBehaviour_stop_condition == is_round_ended(FinalizationRound)

\* InitialDelayState.async_act: sleep, then set_done.
InitialDelayState_async_act(a) ==
    /\ current[a] = InitialDelayState_state_id
    /\ pc[a] = "start"
    /\ SetDone(a)
    /\ UNCHANGED <<observed, raised, built, pending, outbox>>
    /\ UNCHANGED <<regVars, substrateVars, chain, faults, call_failed>>

RegistrationBehaviour_async_act(a) ==
    /\ current[a] = RegistrationBehaviour_state_id
    /\ \/ /\ pc[a] = "start"
          /\ Submit(a, RegistrationPayload(a))
       \/ SendTransactionStopped(a, RegistrationBehaviour_stop_condition)
       \/ WaitUntilRoundEnd(a, RegistrationBehaviour_round)
    /\ UNCHANGED <<regVars, substrateVars, chain, faults, call_failed>>

\* As DeployerAct, with the payload sent before the deployment.
DeployerActPayloadFirst(a) ==
    /\ Submit(a, DeploySafePayload(a, DeployedAddress(a)))
    /\ UNCHANGED <<chain, faults, call_failed>>

\* deployer_act up to the suspension in _send_raw_transaction.
DeployerAct(a) ==
    LET args == DeploySafeTxArgs(a, period_state, max_participants)
        tx == [ kind |-> "deploy", from |-> a, owners |-> args.owners,
                threshold |-> args.threshold,
                contract_address |-> DeployedAddress(a) ]
    IN \/ /\ chain' = Append(chain, tx)
          /\ Request(a, [ kind |-> "raw_tx", tx_hash |-> Len(chain) + 1,
                          contract_address |-> tx.contract_address ])
          /\ UNCHANGED <<faults, call_failed>>
       \/ /\ CanFault       \* get_deploy_safe_tx fails on the node
          /\ Raise(a, "RpcError")
          /\ CallFails(a)
          /\ UNCHANGED chain

\* deployer_act after the reply to the deployment transaction.
DeployerReply(a) ==
    \/ /\ Submit(a, DeploySafePayload(a, pending[a].contract_address))
       /\ UNCHANGED <<faults, call_failed>>
    \/ /\ CanFault
       /\ Raise(a, "RpcError")
       /\ CallFails(a)

DeploySafeBehaviour_async_act(a) ==
    /\ current[a] = DeploySafeBehaviour_state_id
    /\ \/ /\ pc[a] = "start"
          /\ IF DeployIsSender(a, period_state)
             THEN DeployerAct(a)
             ELSE NotSenderAct(a) /\ UNCHANGED <<chain, faults, call_failed>>
       \/ /\ pc[a] = "reply"
          /\ DeployerReply(a)
          /\ UNCHANGED chain
       \/ /\ SendTransactionStopped(a, DeploySafeBehaviour_stop_condition)
          /\ UNCHANGED <<chain, faults, call_failed>>
       \/ /\ WaitUntilRoundEnd(a, DeploySafeBehaviour_round)
          /\ UNCHANGED <<chain, faults, call_failed>>
    /\ UNCHANGED <<regVars, substrateVars>>

\* As GetPriceRaises, with the error caught and a default observation sent.
GetPriceCaught(a) == Submit(a, ObservationPayload(a, 0))

\* get_price raises: nothing catches it.
GetPriceRaises(a) == Raise(a, "PriceApiError")

ObserveBehaviour_async_act(a) ==
    /\ current[a] = ObserveBehaviour_state_id
    /\ \/ /\ pc[a] = "start"
          /\ \/ \E observation \in Prices(a) :
                  /\ Submit(a, ObservationPayload(a, observation))
                  /\ UNCHANGED <<faults, call_failed>>
             \/ /\ CanFault     \* get_price fails
                /\ GetPriceRaises(a)
                /\ CallFails(a)
       \/ /\ SendTransactionStopped(a, ObserveBehaviour_stop_condition)
          /\ UNCHANGED <<faults, call_failed>>
       \/ /\ WaitUntilRoundEnd(a, ObserveBehaviour_round)
          /\ UNCHANGED <<faults, call_failed>>
    /\ UNCHANGED <<regVars, substrateVars, chain>>

\* period_state.observations: the payloads, in whatever order the agent
\* holds them.
HeldObservations(ps) ==
    LET items == ps.participant_to_observations
    IN { [ i \in 1..Len(items) |-> items[p[i]][2] ] :
            p \in Permutations(1..Len(items)) }

EstimateBehaviour_async_act(a) ==
    /\ current[a] = EstimateBehaviour_state_id
    /\ \/ /\ pc[a] = "start"
          /\ \E held \in HeldObservations(period_state) :
                Submit(a, EstimatePayload(a, Aggregate(EstimateObservations(held))))
       \/ SendTransactionStopped(a, EstimateBehaviour_stop_condition)
       \/ WaitUntilRoundEnd(a, EstimateBehaviour_round)
    /\ UNCHANGED <<regVars, substrateVars, chain, faults, call_failed>>

TransactionHashBehaviour_async_act(a) ==
    /\ current[a] = TransactionHashBehaviour_state_id
    /\ \/ /\ pc[a] = "start"
          /\ IF TxHashIsSender(a, period_state)
             THEN Submit(a, TransactionHashPayload(a,
                     StripPrefix(SafeTxHashHex(period_state.safe_contract_address,
                                               encoded_estimate(period_state)))))
             ELSE NotSenderAct(a)
       \/ SendTransactionStopped(a, TransactionHashBehaviour_stop_condition)
       \/ WaitUntilRoundEnd(a, TransactionHashBehaviour_round)
    /\ UNCHANGED <<regVars, substrateVars, chain, faults, call_failed>>

\* What the signing oracle may put in signed_message.body.
OracleBodies(a) ==
    {GoodSignature(a)} \cup (IF CanFault THEN BadSignatures(a) ELSE {})

\* As SignatureReply, with the wait for the reply given up once the
\* signature round is over.
SignatureReplyOrRoundEnd(a) ==
    \/ \E body \in OracleBodies(a) :
          /\ Submit(a, SignaturePayload(a, SignatureHex(body)))
          /\ faults' = IF body = GoodSignature(a) THEN faults ELSE faults + 1
          /\ UNCHANGED call_failed
    \/ /\ CanFault
       /\ Raise(a, "SigningError")
       /\ CallFails(a)
    \/ /\ is_round_ended(CollectSignatureRound)
       /\ pc' = [pc EXCEPT ![a] = "wait"]
       /\ pending' = [pending EXCEPT ![a] = NoRequest]
       /\ UNCHANGED <<current, history, completed, observed, raised, built,
                      outbox, faults, call_failed>>

\* _get_safe_tx_signature once wait_for_message has returned the reply of
\* the signing oracle, and async_act up to _send_transaction.
SignatureReply(a) ==
    \/ \E body \in OracleBodies(a) :
          /\ Submit(a, SignaturePayload(a, SignatureHex(body)))
          /\ faults' = IF body = GoodSignature(a) THEN faults ELSE faults + 1
          /\ UNCHANGED call_failed
    \/ /\ CanFault     \* the oracle answers with an error message
       /\ Raise(a, "SigningError")
       /\ CallFails(a)

SignatureBehaviour_async_act(a) ==
    /\ current[a] = SignatureBehaviour_state_id
    /\ \/ /\ pc[a] = "start"
          /\ IF CanUnhexlify(period_state.safe_tx_hash)
             THEN Request(a, [ kind |-> "sign",
                               body |-> period_state.safe_tx_hash ])
             ELSE Raise(a, "binascii.Error")
          /\ UNCHANGED <<faults, call_failed>>
       \/ /\ pc[a] = "reply"
          /\ SignatureReply(a)
       \/ /\ SendTransactionStopped(a, SignatureBehaviour_stop_condition)
          /\ UNCHANGED <<faults, call_failed>>
       \/ /\ WaitUntilRoundEnd(a, SignatureBehaviour_round)
          /\ UNCHANGED <<faults, call_failed>>
    /\ UNCHANGED <<regVars, substrateVars, chain>>

\* sender_act of Finalize up to the suspension in _send_raw_transaction.
SendSafeTransaction(a) ==
    LET signers == SignerOrder(period_state)
        signatures == period_state.participant_to_signature
    IN IF ~CanComposeSignature(signers, signatures)
       THEN Raise(a, "binascii.Error") /\ UNCHANGED <<chain, faults, call_failed>>
       ELSE \/ \E quote \in GasQuotes :
                LET gas == quote[1]
                    recommended == quote[2]
                    tx == [ kind |-> "safe_tx", from |-> a,
                            data |-> encoded_estimate(period_state),
                            signatures |-> ComposeSignature(signers, signatures),
                            estimated_gas |-> gas,
                            recommended_gas |-> recommended,
                            gas |-> FinalGas(gas, recommended),
                            nonce |-> TransactionCount(chain, a) ]
                IN /\ chain' = Append(chain, tx)
                   /\ Request(a, [ kind |-> "raw_tx",
                                   tx_hash |-> Len(chain) + 1 ])
                   /\ UNCHANGED <<faults, call_failed>>
            \/ /\ CanFault      \* a call to the node fails
               /\ Raise(a, "RpcError")
               /\ CallFails(a)
               /\ UNCHANGED chain

\* sender_act of Finalize after the reply to the transaction.
SendSafeTransactionReply(a) ==
    \/ /\ Submit(a, FinalizationTxPayload(a, pending[a].tx_hash))
       /\ UNCHANGED <<faults, call_failed>>
    \/ /\ CanFault
       /\ Raise(a, "RpcError")
       /\ CallFails(a)

FinalizeBehaviour_async_act(a) ==
    /\ current[a] = FinalizeBehaviour_state_id
    /\ \/ /\ pc[a] = "start"
          /\ IF FinalizeIsSender(a, period_state)
             THEN SendSafeTransaction(a)
             ELSE NotSenderAct(a) /\ UNCHANGED <<chain, faults, call_failed>>
       \/ /\ pc[a] = "reply"
          /\ SendSafeTransactionReply(a)
          /\ UNCHANGED chain
       \/ /\ SendTransactionStopped(a, FinalizeBehaviour_stop_condition)
          /\ UNCHANGED <<chain, faults, call_failed>>
       \/ /\ WaitUntilRoundEnd(a, FinalizeBehaviour_round)
          /\ UNCHANGED <<chain, faults, call_failed>>
    /\ UNCHANGED <<regVars, substrateVars>>

\* As EndBehaviour.async_act, clearing the period state for the next period.
EndBehaviour_async_act_clearing(a) ==
    /\ current[a] = EndBehaviour_state_id
    /\ pc[a] = "start"
    /\ SetDone(a)
    /\ period_state' = InitialPeriodState
    /\ UNCHANGED <<observed, raised, built, pending, outbox>>
    /\ UNCHANGED <<regVars, current_round_id, round_payloads, chain, faults,
                   call_failed>>

\* EndBehaviour.async_act: log, set_done.
EndBehaviour_async_act(a) ==
    /\ current[a] = EndBehaviour_state_id
    /\ pc[a] = "start"
    /\ SetDone(a)
    /\ UNCHANGED <<observed, raised, built, pending, outbox>>
    /\ UNCHANGED <<regVars, substrateVars, chain, faults, call_failed>>

-----------------------------------------------------------------------------
(* The consensus substrate *)

agentVars == <<current, pc, outbox, pending, history, completed, observed, built,
               raised>>

SenderPayload(payloads, sender) ==
    payloads[CHOOSE i \in 1..Len(payloads) : payloads[i].sender = sender]

Votes(payloads, estimate) ==
    Cardinality({ i \in 1..Len(payloads) : payloads[i].estimate = estimate })

\* The payloads of a round with one more.  A round maps each sender to its
\* payload: the items are kept by ascending sender, whatever the order in
\* which the payloads arrive.
Admitted(payloads, payload) ==
    LET before == { i \in 1..Len(payloads) : payloads[i].sender < payload.sender }
    IN SubSeq(payloads, 1, Cardinality(before)) \o <<payload>>
         \o SubSeq(payloads, Cardinality(before) + 1, Len(payloads))

\* The substrate admits the payload an agent is submitting to the current
\* round, once per sender, and acknowledges it.
SubstrateAdmit(a) ==
    /\ pc[a] = "send"
    /\ outbox[a] # NoPayload
    /\ PayloadRound(outbox[a]) = current_round_id
    /\ a \notin Senders(round_payloads)
    /\ round_payloads' = Admitted(round_payloads, outbox[a])
    /\ outbox' = [outbox EXCEPT ![a] = NoPayload]
    /\ pc' = [pc EXCEPT ![a] = "wait"]
    /\ UNCHANGED <<current, history, completed, observed, raised, built, pending>>
    /\ UNCHANGED <<regVars, current_round_id, period_state, chain, faults, call_failed>>

\* When the current round has the agreement it needs.
Quorum ==
    LET threshold == two_thirds_threshold(max_participants)
        by_sender == period_state.safe_sender_address \in Senders(round_payloads)
    IN CASE current_round_id = RegistrationRound ->
              Cardinality(Senders(round_payloads)) = max_participants
         [] current_round_id = DeploySafeRound -> by_sender
         [] current_round_id = CollectObservationRound ->
              Len(round_payloads) >= threshold
         [] current_round_id = EstimateConsensusRound ->
              \E i \in 1..Len(round_payloads) :
                  Votes(round_payloads, round_payloads[i].estimate) >= threshold
         [] current_round_id = TxHashRound -> by_sender
         [] current_round_id = CollectSignatureRound ->
              Len(round_payloads) >= threshold
         [] current_round_id = FinalizationRound -> by_sender
         [] OTHER -> FALSE

\* The period states the closing round may leave.
Merged ==
    LET ps == period_state
        of_sender == SenderPayload(round_payloads, ps.safe_sender_address)
    IN CASE current_round_id = RegistrationRound ->
              { [ ps EXCEPT !.participants = Senders(round_payloads),
                            !.sorted_addresses =
                                SortedAddresses(Senders(round_payloads)),
                            !.safe_sender_address =
                                SortedAddresses(Senders(round_payloads))[1] ] }
         [] current_round_id = DeploySafeRound ->
              { [ ps EXCEPT !.safe_contract_address =
                                of_sender.safe_contract_address ] }
         [] current_round_id = CollectObservationRound ->
              { [ ps EXCEPT !.participant_to_observations =
                    [ i \in 1..Len(round_payloads) |->
                        << round_payloads[i].sender, round_payloads[i] >> ] ] }
         [] current_round_id = EstimateConsensusRound ->
              { [ ps EXCEPT !.most_voted_estimate = round_payloads[i].estimate ] :
                  i \in { j \in 1..Len(round_payloads) :
                            Votes(round_payloads, round_payloads[j].estimate)
                                >= two_thirds_threshold(max_participants) } }
         [] current_round_id = TxHashRound ->
              { [ ps EXCEPT !.safe_tx_hash = of_sender.tx_hash ] }
         [] current_round_id = CollectSignatureRound ->
              { [ ps EXCEPT !.participant_to_signature =
                    [ i \in 1..Len(round_payloads) |->
                        << round_payloads[i].sender,
                           round_payloads[i].signature >> ] ] }
         [] current_round_id = FinalizationRound ->
              { [ ps EXCEPT !.final_tx_hash = of_sender.tx_hash ] }

\* The round of the phase an agent is in (0 before registration).
PhaseRoundIndex(phase) ==
    (CHOOSE i \in 1..Len(SetupStateClasses) : SetupStateClasses[i] = phase) - 1

\* How far the next round would be ahead of the slowest agent still running.
LagAfterClose ==
    LET live == { a \in Agents : pc[a] \notin {"off", "failed"} }
    IN IF live = {} THEN 0
       ELSE LET slowest == CHOOSE a \in live : \A b \in live :
                              PhaseRoundIndex(current[a]) <= PhaseRoundIndex(current[b])
            IN RoundIndex(current_round_id) + 1 - PhaseRoundIndex(current[slowest])

\* The substrate closes the current round and opens the next one.
SubstrateCloseRound ==
    /\ Quorum
    /\ LagAfterClose <= MaxLag
    /\ period_state' \in Merged
    /\ current_round_id' = RoundOrder[RoundIndex(current_round_id) + 1]
    /\ round_payloads' = <<>>
    /\ UNCHANGED <<agentVars, regVars, chain, faults, call_failed>>

-----------------------------------------------------------------------------
(* The workflow: every agent after setup() *)

Participating(a) == a <= max_participants

Init ==
    /\ state_classes = SetupStateClasses
    /\ fsm = RegisterStates(state_classes)
    /\ max_participants \in 1..MaxParticipants
    /\ current = [ a \in Agents |-> IF Participating(a) THEN fsm.initial ELSE None ]
    /\ pc = [ a \in Agents |-> IF Participating(a) THEN "start" ELSE "off" ]
    /\ history = [ a \in Agents |->
                     IF Participating(a) THEN <<fsm.initial>> ELSE <<>> ]
    /\ completed = [ a \in Agents |-> <<>> ]
    /\ outbox = [ a \in Agents |-> NoPayload ]
    /\ pending = [ a \in Agents |-> NoRequest ]
    /\ observed = [ a \in Agents |-> {} ]
    /\ built = [ a \in Agents |-> <<>> ]
    /\ raised = [ a \in Agents |-> None ]
    /\ call_failed = [ a \in Agents |-> None ]
    /\ current_round_id = RegistrationRound
    /\ round_payloads = <<>>
    /\ period_state = InitialPeriodState
    /\ chain = <<>>
    /\ faults = 0

Next ==
    \/ \E a \in Agents : InitialDelayState_async_act(a)
    \/ \E a \in Agents : RegistrationBehaviour_async_act(a)
    \/ \E a \in Agents : DeploySafeBehaviour_async_act(a)
    \/ \E a \in Agents : ObserveBehaviour_async_act(a)
    \/ \E a \in Agents : EstimateBehaviour_async_act(a)
    \/ \E a \in Agents : TransactionHashBehaviour_async_act(a)
    \/ \E a \in Agents : SignatureBehaviour_async_act(a)
    \/ \E a \in Agents : FinalizeBehaviour_async_act(a)
    \/ \E a \in Agents : EndBehaviour_async_act(a)
    \/ \E a \in Agents : SubstrateAdmit(a)
    \/ SubstrateCloseRound

Spec == Init /\ [][Next]_vars

-----------------------------------------------------------------------------
(* _register_states on its own, on any list of distinct state classes *)

DistinctLists(n) ==
    { l \in UNION { [1..k -> StateIds] : k \in 0..n } :
        \A i, j \in 1..Len(l) : i # j => l[i] # l[j] }

InitRegister ==
    /\ state_classes \in DistinctLists(MaxListLen)
    /\ fsm = EmptyFsm
    /\ max_participants = 0
    /\ current = [ a \in Agents |-> None ]
    /\ pc = [ a \in Agents |-> "setup" ]
    /\ history = [ a \in Agents |-> <<>> ]
    /\ completed = [ a \in Agents |-> <<>> ]
    /\ outbox = [ a \in Agents |-> NoPayload ]
    /\ pending = [ a \in Agents |-> NoRequest ]
    /\ observed = [ a \in Agents |-> {} ]
    /\ built = [ a \in Agents |-> <<>> ]
    /\ raised = [ a \in Agents |-> None ]
    /\ call_failed = [ a \in Agents |-> None ]
    /\ current_round_id = RegistrationRound
    /\ round_payloads = <<>>
    /\ period_state = InitialPeriodState
    /\ chain = <<>>
    /\ faults = 0

\* setup(): _register_states runs once.
RegisterStatesAct ==
    /\ \A a \in Agents : pc[a] = "setup"
    /\ fsm' = RegisterStates(state_classes)
    /\ pc' = [ a \in Agents |-> "off" ]
    /\ UNCHANGED <<state_classes, max_participants, current, outbox, pending,
                   history, completed, observed, built, raised, call_failed,
                   substrateVars, chain, faults>>

NextRegister == RegisterStatesAct

SpecRegister == InitRegister /\ [][NextRegister]_vars

-----------------------------------------------------------------------------
(* The workflow when no collaborator fails, under fair scheduling *)

\* No failure is left to happen.
InitFair ==
    /\ state_classes = SetupStateClasses
    /\ fsm = RegisterStates(state_classes)
    /\ max_participants \in 1..MaxParticipants
    /\ current = [ a \in Agents |-> IF Participating(a) THEN fsm.initial ELSE None ]
    /\ pc = [ a \in Agents |-> IF Participating(a) THEN "start" ELSE "off" ]
    /\ history = [ a \in Agents |->
                     IF Participating(a) THEN <<fsm.initial>> ELSE <<>> ]
    /\ completed = [ a \in Agents |-> <<>> ]
    /\ outbox = [ a \in Agents |-> NoPayload ]
    /\ pending = [ a \in Agents |-> NoRequest ]
    /\ observed = [ a \in Agents |-> {} ]
    /\ built = [ a \in Agents |-> <<>> ]
    /\ raised = [ a \in Agents |-> None ]
    /\ call_failed = [ a \in Agents |-> None ]
    /\ current_round_id = RegistrationRound
    /\ round_payloads = <<>>
    /\ period_state = InitialPeriodState
    /\ chain = <<>>
    /\ faults = MaxFaults

\* One tick of the behaviour of agent `a`.
AgentAct(a) ==
    \/ InitialDelayState_async_act(a)
    \/ RegistrationBehaviour_async_act(a)
    \/ DeploySafeBehaviour_async_act(a)
    \/ ObserveBehaviour_async_act(a)
    \/ EstimateBehaviour_async_act(a)
    \/ TransactionHashBehaviour_async_act(a)
    \/ SignatureBehaviour_async_act(a)
    \/ FinalizeBehaviour_async_act(a)
    \/ EndBehaviour_async_act(a)

\* Every agent keeps being ticked (the delay elapses, replies arrive), and
\* the substrate keeps admitting payloads and closing rounds.
Fairness ==
    /\ \A a \in Agents : WF_vars(AgentAct(a))
    /\ \A a \in Agents : WF_vars(SubstrateAdmit(a))
    /\ WF_vars(SubstrateCloseRound)

SpecFair == InitFair /\ [][Next]_vars /\ Fairness

-----------------------------------------------------------------------------
(* The Finalize phase on its own, whatever signatures were recorded *)

\* The agents enter Finalize.  The period state holds a signature for any
\* subset of the participants, the empty one included.
PeriodStateAtFinalize(n, signed) ==
    LET participants == 1..n
        sender == SortedAddresses(participants)[1]
        observations == [ i \in 1..n |->
                            << i, ObservationPayload(i, CHOOSE o \in Prices(i) : TRUE) >> ]
        estimate == Aggregate([ i \in 1..n |-> observations[i][2].observation ])
        safe == DeployedAddress(sender)
        signers == SortedAddresses(signed)
    IN [ participants |-> participants,
         sorted_addresses |-> SortedAddresses(participants),
         safe_sender_address |-> sender,
         safe_contract_address |-> safe,
         participant_to_observations |-> observations,
         most_voted_estimate |-> estimate,
         safe_tx_hash |-> StripPrefix(SafeTxHashHex(safe, estimate)),
         participant_to_signature |->
             [ i \in 1..Len(signers) |->
                 << signers[i], SignatureHex(GoodSignature(signers[i])) >> ],
         final_tx_hash |-> InitialPeriodState.final_tx_hash ]

BuiltBeforeFinalize(a, ps) ==
    << << "Registration", a >> >>
      \o (IF a = ps.safe_sender_address THEN << << "DeploySafe", a >> >> ELSE <<>>)
      \o << << "Observation", a >>, << "Estimate", a >> >>
      \o (IF a = ps.safe_sender_address THEN << << "TxHash", a >> >> ELSE <<>>)
      \o << << "Signature", a >> >>

InitFinalize ==
    /\ state_classes = SetupStateClasses
    /\ fsm = RegisterStates(state_classes)
    /\ max_participants \in 1..MaxParticipants
    /\ \E signed \in SUBSET (1..max_participants) :
          period_state = PeriodStateAtFinalize(max_participants, signed)
    /\ current = [ a \in Agents |->
                     IF Participating(a) THEN FinalizeBehaviour_state_id ELSE None ]
    /\ pc = [ a \in Agents |-> IF Participating(a) THEN "start" ELSE "off" ]
    /\ history = [ a \in Agents |->
                     IF Participating(a) THEN SubSeq(SetupStateClasses, 1, 8)
                                         ELSE <<>> ]
    /\ completed = [ a \in Agents |->
                       IF Participating(a) THEN SubSeq(SetupStateClasses, 1, 7)
                                           ELSE <<>> ]
    /\ outbox = [ a \in Agents |-> NoPayload ]
    /\ pending = [ a \in Agents |-> NoRequest ]
    /\ observed = [ a \in Agents |->
                      IF Participating(a)
                      THEN { RoundOrder[i] : i \in 1..6 } ELSE {} ]
    /\ built = [ a \in Agents |->
                   IF Participating(a) THEN BuiltBeforeFinalize(a, period_state)
                                       ELSE <<>> ]
    /\ raised = [ a \in Agents |-> None ]
    /\ call_failed = [ a \in Agents |-> None ]
    /\ current_round_id = FinalizationRound
    /\ round_payloads = <<>>
    /\ chain = << [ kind |-> "deploy", from |-> period_state.safe_sender_address,
                    owners |-> period_state.participants,
                    threshold |-> two_thirds_threshold(max_participants),
                    contract_address |-> period_state.safe_contract_address ] >>
    /\ faults = 0

NextFinalize ==
    \/ \E a \in Agents : FinalizeBehaviour_async_act(a)
    \/ \E a \in Agents : EndBehaviour_async_act(a)
    \/ \E a \in Agents : SubstrateAdmit(a)
    \/ SubstrateCloseRound

SpecFinalize == InitFinalize /\ [][NextFinalize]_vars

-----------------------------------------------------------------------------
(* Properties *)

Range(seq) == { seq[i] : i \in 1..Len(seq) }

IsPrefix(short, long) ==
    /\ Len(short) <= Len(long)
    /\ \A i \in 1..Len(short) : short[i] = long[i]

\* The phases that wait on a round, with the round the specification pairs
\* with each.
RoundOfPhase ==
    [ p \in Range(SubSeq(SetupStateClasses, 2, 8)) |->
        RoundOrder[PhaseRoundIndex(p)] ]

\* The payload type a phase submits.
PayloadTypeOfPhase ==
    [ p \in Range(SubSeq(SetupStateClasses, 2, 8)) |->
        CASE p = RegistrationBehaviour_state_id -> "Registration"
          [] p = DeploySafeBehaviour_state_id -> "DeploySafe"
          [] p = ObserveBehaviour_state_id -> "Observation"
          [] p = EstimateBehaviour_state_id -> "Estimate"
          [] p = TransactionHashBehaviour_state_id -> "TxHash"
          [] p = SignatureBehaviour_state_id -> "Signature"
          [] p = FinalizeBehaviour_state_id -> "FinalizationTx" ]

ChainWrites(kind) == { i \in 1..Len(chain) : chain[i].kind = kind }

\* C1: an agent goes through the nine phases in the one fixed order
\* InitialDelay, Registration, DeploySafe, Observe, Estimate,
\* TransactionHash, Signature, Finalize, End: it leaves a phase only after
\* that phase has completed, only for the phase that follows it in the
\* order, and never comes back to a phase or passes over one.
PhaseOrderStep(a) ==
    current'[a] # current[a] =>
        /\ completed'[a] = Append(completed[a], current[a])
        /\ \/ \E k \in 1..(Len(SetupStateClasses) - 1) :
                /\ current[a] = SetupStateClasses[k]
                /\ current'[a] = SetupStateClasses[k + 1]
           \/ /\ current[a] = EndBehaviour_state_id
              /\ current'[a] = None
        /\ current'[a] \notin Range(history[a])

C1_PhaseChainLinear ==
    /\ [](\A a \in Agents : /\ IsPrefix(history[a], SetupStateClasses)
                            /\ IsPrefix(completed[a], SetupStateClasses)
                            /\ Len(completed[a]) <= Len(history[a]))
    /\ [][\A a \in Agents : PhaseOrderStep(a)]_vars

C1_Witness ==
    \E a \in Agents :
        /\ current[a] = EndBehaviour_state_id
        /\ history[a] = SetupStateClasses
        /\ completed[a] = SubSeq(SetupStateClasses, 1, 8)

\* C2: every write to the chain (the deployment of the Safe, the final Safe
\* transaction) is made by the designated sender of the period state; an
\* agent with another address makes none.
C2_OnlySenderWritesChain ==
    \A i \in 1..Len(chain) : chain[i].from = period_state.safe_sender_address

C2_Witness ==
    /\ ChainWrites("deploy") # {}
    /\ ChainWrites("safe_tx") # {}
    /\ \E b \in Agents :
          /\ b # period_state.safe_sender_address
          /\ FinalizeBehaviour_state_id \in Range(completed[b])

\* C3: when the designated sender has assembled the final Safe transaction
\* and handed it over, the signature attached to it is the concatenation of
\* the bytes of the recorded signatures, taken by ascending address of their
\* signers, whichever participants signed and in whatever order their
\* signatures reached the round.
RECURSIVE AscendingConcat(_, _)
AscendingConcat(signers, signatures) ==
    IF signers = {} THEN <<>>
    ELSE LET least == CHOOSE x \in signers : \A y \in signers : x <= y
         IN Unhexlify(Lookup(signatures, least))
              \o AscendingConcat(signers \ {least}, signatures)

JustSent(i) ==
    /\ pending[chain[i].from].kind = "raw_tx"
    /\ pending[chain[i].from].tx_hash = i

C3_FinalSignatureAscending ==
    \A i \in ChainWrites("safe_tx") :
        JustSent(i) =>
            chain[i].signatures =
                AscendingConcat(Keys(period_state.participant_to_signature),
                                period_state.participant_to_signature)

C3_Witness ==
    \E i \in ChainWrites("safe_tx") :
        /\ Cardinality(period_state.participants) = 3
        /\ JustSent(i)
        /\ Len(period_state.participant_to_signature) = 2
        /\ Len(chain[i].signatures) = 2 * SIGNATURE_LENGTH

C5_GasIsMaxOfMarginAndRecommended ==
    \A i \in ChainWrites("safe_tx") :
        LET g == chain[i].estimated_gas
            r == chain[i].recommended_gas
        IN /\ chain[i].gas >= g + 75000
           /\ chain[i].gas >= r
           /\ chain[i].gas \in { g + 75000, r }

C5_Witness ==
    \E i \in ChainWrites("safe_tx") :
        /\ chain[i].estimated_gas = 100000
        /\ chain[i].recommended_gas = 150000
        /\ chain[i].gas = 175000

\* C6: an agent leaves a phase that waits on a round only at a moment when
\* that round is closed, and only after it has itself seen it closed; it
\* never starts the next phase while the round of its phase is still open.
LeavesAfterRoundClosed(a) ==
    (current'[a] # current[a] /\ current[a] \in DOMAIN RoundOfPhase) =>
        /\ RoundIndex(current_round_id) > RoundIndex(RoundOfPhase[current[a]])
        /\ RoundOfPhase[current[a]] \in observed'[a]

C6_NextPhaseOnlyAfterRoundClosed ==
    [][\A a \in Agents : LeavesAfterRoundClosed(a)]_vars

C6_Witness ==
    \E a, b \in Agents :
        /\ current[a] = EstimateBehaviour_state_id
        /\ CollectObservationRound \in observed[a]
        /\ current[b] = ObserveBehaviour_state_id
        /\ pc[b] = "send"

\* C7: the estimate an agent submits depends only on the multiset of the
\* observations collected, not on the order in which it holds them: all
\* estimates built from one set of observations are equal, and equal to
\* their mean.
EstimatePayloadsInFlight ==
    { outbox[a] : a \in { b \in Agents : outbox[b].type = "Estimate" } }
      \cup { round_payloads[i] :
               i \in { j \in 1..Len(round_payloads) :
                         round_payloads[j].type = "Estimate" } }

CollectedObservations ==
    [ i \in 1..Len(period_state.participant_to_observations) |->
        period_state.participant_to_observations[i][2].observation ]

C7_EstimateIgnoresOrder ==
    \A p \in EstimatePayloadsInFlight :
        /\ \A q \in EstimatePayloadsInFlight : p.estimate = q.estimate
        /\ p.estimate.num * Len(CollectedObservations)
              = Sum(CollectedObservations) * p.estimate.den

C7_Witness ==
    /\ Cardinality(EstimatePayloadsInFlight) >= 2
    /\ Cardinality(Range(CollectedObservations)) >= 2
    /\ Len(CollectedObservations) = 3

\* C8: _register_states on an empty list raises ValueError and registers
\* nothing; on a non-empty list it registers every state, the first one as
\* the initial state, and exactly one DONE_EVENT transition from each state
\* to the one after it in the list.
C8_RegisterStates ==
    (\A a \in Agents : pc[a] = "off") =>
        IF Len(state_classes) = 0
        THEN /\ fsm.error = "ValueError"
             /\ fsm.states = <<>>
             /\ fsm.initial = None
             /\ fsm.transitions = <<>>
        ELSE /\ fsm.error = None
             /\ fsm.states = state_classes
             /\ fsm.initial = state_classes[1]
             /\ Len(fsm.transitions) = Len(state_classes) - 1
             /\ \A i \in 1..(Len(state_classes) - 1) :
                   fsm.transitions[i] =
                       << state_classes[i], DONE_EVENT, state_classes[i + 1] >>

C8_Witness ==
    /\ \A a \in Agents : pc[a] = "off"
    /\ Len(state_classes) = 3
    /\ Len(fsm.transitions) = 2
    /\ fsm.initial = state_classes[1]

\* C9: no Signature payload is submitted with a signature that is not the
\* hex of a 65-byte signature; the phase fails instead.
SubmittedSignatures ==
    { outbox[a].signature : a \in { b \in Agents : outbox[b].type = "Signature" } }
      \cup { round_payloads[i].signature :
               i \in { j \in 1..Len(round_payloads) :
                         round_payloads[j].type = "Signature" } }

WellFormedSignatureHex(hex) ==
    /\ Len(hex) = 2 * SIGNATURE_LENGTH
    /\ CanUnhexlify(hex)

C9_NoMalformedSignatureSubmitted ==
    \A hex \in SubmittedSignatures : WellFormedSignatureHex(hex)

\* C10: when an external call of an agent fails, its workflow halts in the
\* phase of the call: the agent submits no payload for that phase, the phase
\* does not complete, the agent enters no later phase, and the call is not
\* made again.
HaltedInPhase(a) ==
    /\ pc[a] = "failed"
    /\ raised[a] # None
    /\ current[a] = call_failed[a]
    /\ outbox[a] = NoPayload
    /\ pending[a] = NoRequest
    /\ current[a] \notin Range(completed[a])
    /\ \A i \in 1..Len(built[a]) : built[a][i][1] # PayloadTypeOfPhase[current[a]]

StaysHalted(a) ==
    call_failed[a] # None =>
        /\ current'[a] = current[a]
        /\ pc'[a] = pc[a]
        /\ built'[a] = built[a]
        /\ completed'[a] = completed[a]
        /\ pending'[a] = pending[a]
        /\ TransactionCount(chain', a) = TransactionCount(chain, a)
        /\ a \notin Senders(round_payloads') \ Senders(round_payloads)

C10_ExternalFailureHalts ==
    /\ [](\A a \in Agents : call_failed[a] # None => HaltedInPhase(a))
    /\ [][\A a \in Agents : StaysHalted(a)]_vars

C10_Witness ==
    \E a, b \in Agents :
        /\ call_failed[a] = ObserveBehaviour_state_id
        /\ current[b] = EndBehaviour_state_id

\* C11: the End phase is terminal.  It submits no payload and is set done;
\* an agent that has completed End has no current phase, no handler of it
\* runs, and it has entered each phase once only.
PayloadTypes == { PayloadTypeOfPhase[p] : p \in DOMAIN PayloadTypeOfPhase }

C11_EndIsTerminal ==
    \A a \in Agents :
        /\ current[a] = EndBehaviour_state_id =>
              /\ outbox[a] = NoPayload
              /\ pending[a] = NoRequest
              /\ pc[a] = "start"
        /\ EndBehaviour_state_id \in Range(completed[a]) =>
              /\ current[a] = None
              /\ pc[a] = "off"
              /\ outbox[a] = NoPayload
              /\ history[a] = SetupStateClasses
              /\ completed[a] = SetupStateClasses
              /\ \A i \in 1..Len(built[a]) : built[a][i][1] \in PayloadTypes
              /\ Len(built[a]) <= Cardinality(PayloadTypes)
              /\ FsmTarget(fsm, EndBehaviour_state_id, DONE_EVENT) = None

C11_Witness ==
    \E a \in Agents :
        /\ EndBehaviour_state_id \in Range(completed[a])
        /\ current[a] = None
        /\ \E b \in Agents : current[b] = EndBehaviour_state_id

\* C12: in Finalize a participant without a recorded signature is passed
\* over without any error.  Whatever the number of recorded signatures, also
\* below the threshold, the designated sender raises nothing unless a
\* collaborator fails, and it builds the transaction with the concatenation
\* of the signatures there are and submits its payload.
PastFinalizeStart(a) ==
    \/ current[a] # FinalizeBehaviour_state_id
    \/ pc[a] # "start"

C12_MissingSignaturesSkipped ==
    LET signatures == period_state.participant_to_signature
        sender == period_state.safe_sender_address
    IN /\ \A a \in Agents : raised[a] # None => call_failed[a] # None
       /\ (PastFinalizeStart(sender) /\ call_failed[sender] = None) =>
             \E i \in ChainWrites("safe_tx") :
                /\ chain[i].from = sender
                /\ chain[i].signatures =
                      AscendingConcat(Keys(signatures), signatures)
                /\ Len(chain[i].signatures) = SIGNATURE_LENGTH * Len(signatures)
       /\ (PastFinalizeStart(sender) /\ call_failed[sender] = None
              /\ pc[sender] # "reply") =>
             << "FinalizationTx", sender >> \in Range(built[sender])

C12_Witness ==
    \E i \in ChainWrites("safe_tx") :
        /\ Cardinality(period_state.participants) = 3
        /\ Len(period_state.participant_to_signature) = 1
        /\ Len(period_state.participant_to_signature)
              < two_thirds_threshold(max_participants)
        /\ Len(chain[i].signatures) = SIGNATURE_LENGTH
        /\ << "FinalizationTx", chain[i].from >> \in Range(built[chain[i].from])

\* C13: the designated sender submits its payload only after the chain
\* write of the phase: a DeploySafe payload carries the address of a Safe
\* whose deployment its sender has sent, and a FinalizationTx payload carries
\* the hash of a Safe transaction its sender has sent.
PayloadsInFlight ==
    { outbox[a] : a \in { b \in Agents : outbox[b] # NoPayload } }
      \cup Range(round_payloads)

C13_PayloadAfterChainWrite ==
    /\ \A p \in PayloadsInFlight :
          /\ p.type = "DeploySafe" =>
                \E i \in ChainWrites("deploy") :
                    /\ chain[i].from = p.sender
                    /\ chain[i].contract_address = p.safe_contract_address
          /\ p.type = "FinalizationTx" =>
                /\ p.tx_hash \in ChainWrites("safe_tx")
                /\ chain[p.tx_hash].from = p.sender
    /\ \A a \in Agents :
          /\ << "DeploySafe", a >> \in Range(built[a]) =>
                \E i \in ChainWrites("deploy") : chain[i].from = a
          /\ << "FinalizationTx", a >> \in Range(built[a]) =>
                \E i \in ChainWrites("safe_tx") : chain[i].from = a
    /\ \A a \in Agents :       \* nothing is submitted while the reply is awaited
          pending[a].kind = "raw_tx" =>
              /\ outbox[a] = NoPayload
              /\ << PayloadTypeOfPhase[current[a]], a >> \notin Range(built[a])
    /\ period_state.safe_contract_address # NoAddress =>
          \E i \in ChainWrites("deploy") :
              chain[i].contract_address = period_state.safe_contract_address
    /\ period_state.final_tx_hash # InitialPeriodState.final_tx_hash =>
          period_state.final_tx_hash \in ChainWrites("safe_tx")

C13_Witness ==
    /\ period_state.safe_contract_address # NoAddress
    /\ period_state.final_tx_hash \in ChainWrites("safe_tx")
    /\ \E a \in Agents : << "FinalizationTx", a >> \in Range(built[a])

\* C14: an agent waiting for the reply of the signing oracle stays there as
\* long as no reply comes: it has submitted no Signature payload, has not
\* completed the Signature phase nor entered Finalize, the closing of the
\* signature round does not release it, and only an answer of the oracle
\* (a signature, or an error) ends the wait.
SuspendedOnOracle(a) ==
    /\ current[a] = SignatureBehaviour_state_id
    /\ pc[a] = "reply"

OracleAnswered(a) ==
    \/ /\ pc'[a] = "send"
       /\ outbox'[a].type = "Signature"
       /\ current'[a] = SignatureBehaviour_state_id
    \/ /\ pc'[a] = "failed"
       /\ raised'[a] = "SigningError"
       /\ current'[a] = SignatureBehaviour_state_id

StaysSuspended(a) ==
    SuspendedOnOracle(a) =>
        /\ SuspendedOnOracle(a)' \/ OracleAnswered(a)
        /\ current_round_id' # current_round_id =>
              /\ SuspendedOnOracle(a)'
              /\ pending'[a] = pending[a]
              /\ built'[a] = built[a]
              /\ completed'[a] = completed[a]

C14_SilentOracleStallsAgent ==
    /\ [](\A a \in Agents :
            SuspendedOnOracle(a) =>
                /\ pending[a].kind = "sign"
                /\ outbox[a] = NoPayload
                /\ << "Signature", a >> \notin Range(built[a])
                /\ SignatureBehaviour_state_id \notin Range(completed[a])
                /\ FinalizeBehaviour_state_id \notin Range(history[a]))
    /\ [][\A a \in Agents : StaysSuspended(a)]_vars

C14_Witness ==
    \E a, b \in Agents :
        /\ SuspendedOnOracle(a)
        /\ RoundIndex(current_round_id) > RoundIndex(CollectSignatureRound)
        /\ current[b] = FinalizeBehaviour_state_id
        /\ pc[b] = "wait"

\* C15: when the delay elapses, every external call is answered without a
\* failure, and the substrate closes every round, every agent, designated
\* sender or not, eventually has completed the nine phases in order.
AllPhasesCompleted(a) ==
    /\ completed[a] = SetupStateClasses
    /\ current[a] = None

C15_EveryAgentReachesEnd ==
    <>[](\A a \in Agents : Participating(a) => AllPhasesCompleted(a))

C15_Witness ==
    /\ max_participants = 3
    /\ faults = MaxFaults
    /\ \A a \in Agents : Participating(a) => AllPhasesCompleted(a)
    /\ \E a \in Agents :
          /\ a # period_state.safe_sender_address
          /\ AllPhasesCompleted(a)

\* C16: an agent still submitting its payload when the round of its phase
\* has closed stops submitting: the payload is not admitted after the
\* closure, the agent builds no other one, it goes on to wait for the round
\* end, and it eventually completes the phase and enters the next one.
ClosedWhileSending(a) ==
    /\ pc[a] = "send"
    /\ current[a] \in DOMAIN RoundOfPhase
    /\ RoundIndex(current_round_id) > RoundIndex(RoundOfPhase[current[a]])

StopsSubmitting(a) ==
    ClosedWhileSending(a) =>
        /\ outbox[a] \notin Range(round_payloads')
        /\ built'[a] = built[a]
        /\ current'[a] = current[a]
        /\ \/ pc'[a] = "send" /\ outbox'[a] = outbox[a]
           \/ pc'[a] = "wait" /\ outbox'[a] = NoPayload

PhaseOfPayloadType ==
    [ type \in PayloadTypes |->
        CHOOSE p \in DOMAIN PayloadTypeOfPhase : PayloadTypeOfPhase[p] = type ]

\* Every phase the agent built a payload in, admitted or not, is completed.
SubmittingPhasesCompleted(a) ==
    \A i \in 1..Len(built[a]) :
        PhaseOfPayloadType[built[a][i][1]] \in Range(completed[a])

C16_SubmissionStopsAtRoundEnd ==
    /\ [][\A a \in Agents : StopsSubmitting(a)]_vars
    /\ <>[](\A a \in Agents :
              ~ClosedWhileSending(a) /\ SubmittingPhasesCompleted(a))

C16_Witness ==
    \E a \in Agents :
        /\ ObserveBehaviour_state_id \in Range(completed[a])
        /\ current[a] = EstimateBehaviour_state_id
        /\ << "Observation", a >> \in Range(built[a])
        /\ a \notin Keys(period_state.participant_to_observations)

\* C17: in Deploy-Safe, TxHash and Finalize an agent that is not the
\* designated sender builds and submits no payload: every DeploySafe, TxHash
\* and FinalizationTx payload comes from the designated sender.  Such an
\* agent still completes those phases only after having seen their round
\* closed.
SenderPhases ==
    { DeploySafeBehaviour_state_id, TransactionHashBehaviour_state_id,
      FinalizeBehaviour_state_id }

SenderPayloadTypes == { PayloadTypeOfPhase[p] : p \in SenderPhases }

NonSenderOnlyWaits ==
    /\ \A a \in Agents :
          (outbox[a] # NoPayload /\ outbox[a].type \in SenderPayloadTypes) =>
              outbox[a].sender = period_state.safe_sender_address
    /\ \A i \in 1..Len(round_payloads) :
          round_payloads[i].type \in SenderPayloadTypes =>
              round_payloads[i].sender = period_state.safe_sender_address
    /\ \A a \in Agents :
          a # period_state.safe_sender_address =>
              /\ \A i \in 1..Len(built[a]) :
                    built[a][i][1] \notin SenderPayloadTypes
              /\ current[a] \in SenderPhases =>
                    outbox[a] = NoPayload /\ pc[a] \in {"start", "wait"}
              /\ \A i \in 1..Len(completed[a]) :
                    completed[a][i] \in SenderPhases =>
                        RoundOfPhase[completed[a][i]] \in observed[a]

C17_NonSenderOnlyWaits == []NonSenderOnlyWaits

C17_Witness ==
    \E a \in Agents :
        /\ Participating(a)
        /\ a # period_state.safe_sender_address
        /\ SenderPhases \subseteq Range(completed[a])
        /\ Len(built[a]) = 4

\* C18: no handler writes the period state.  It changes only in a step of
\* the substrate that closes a round, a step in which no agent moves, and a
\* value once recorded in it (participants, designated sender, Safe address,
\* observations, estimate, transaction hash, signatures, final hash) is the
\* same in every later state.
Recorded(ps, field) == ps[field] # InitialPeriodState[field]

PeriodStateStep ==
    /\ period_state' # period_state =>
          /\ current_round_id' # current_round_id
          /\ RoundIndex(current_round_id') = RoundIndex(current_round_id) + 1
          /\ UNCHANGED agentVars
          /\ UNCHANGED chain
    /\ \A field \in DOMAIN period_state :
          Recorded(period_state, field) =>
              period_state'[field] = period_state[field]

C18_PeriodStateOnlyThroughSubstrate ==
    [][PeriodStateStep]_vars

C18_Witness ==
    /\ \A field \in DOMAIN period_state : Recorded(period_state, field)
    /\ \E a \in Agents : current[a] = EndBehaviour_state_id

\* C19: every payload an agent builds has the agent itself as sender and the
\* type of the phase the agent is in; an agent builds at most one payload in
\* a phase, and none in initial_delay and in end.
NumberOfPayloadTypes == Cardinality(PayloadTypes)

RoundIndexOfPayloadType ==
    [ type \in PayloadTypes |-> PhaseRoundIndex(PhaseOfPayloadType[type]) ]

BuiltInPhaseOrder(a) ==      \* strictly increasing, pair by adjacent pair
    \A i \in 1..(Len(built[a]) - 1) :
        RoundIndexOfPayloadType[built[a][i][1]]
            < RoundIndexOfPayloadType[built[a][i + 1][1]]

OwnPayloadOfPhaseOncePerPhase ==
    \A a \in Agents :
        /\ \A i \in 1..Len(built[a]) :
              /\ built[a][i][2] = a
              /\ built[a][i][1] \in PayloadTypes
              /\ PhaseOfPayloadType[built[a][i][1]] \in Range(history[a])
        /\ BuiltInPhaseOrder(a)
        /\ outbox[a] # NoPayload =>
              /\ outbox[a].sender = a
              /\ current[a] \in DOMAIN PayloadTypeOfPhase
              /\ outbox[a].type = PayloadTypeOfPhase[current[a]]
              /\ built[a][Len(built[a])] = << outbox[a].type, a >>
        /\ (current[a] \in DOMAIN PayloadTypeOfPhase /\ pc[a] = "start") =>
              << PayloadTypeOfPhase[current[a]], a >> \notin Range(built[a])
        /\ current[a] = InitialDelayState_state_id => built[a] = <<>>
        /\ current[a] \in { InitialDelayState_state_id, EndBehaviour_state_id } =>
              outbox[a] = NoPayload
        /\ Len(built[a]) <= NumberOfPayloadTypes

C19_OwnPayloadOfPhaseOncePerPhase == []OwnPayloadOfPhaseOncePerPhase

C19_Witness ==
    \E a \in Agents :
        /\ Len(built[a]) = 7
        /\ current[a] = EndBehaviour_state_id
        /\ \E b \in Agents : Len(built[b]) = 4 /\ current[b] = EndBehaviour_state_id

\* C20: agents may be in different phases at the same time, one already in
\* phase k+1 while another is still in phase k without having seen round k
\* closed.  In every state, however far apart the agents are, each agent has
\* entered the phases in the registered order, has seen closed the round of
\* every round phase it completed, and is never in a phase whose round the
\* substrate has not opened yet.
RoundIndexOfPhase ==
    [ p \in DOMAIN RoundOfPhase |-> RoundIndex(RoundOfPhase[p]) ]

RoundIndexOfRound == [ r \in Range(RoundOrder) |-> RoundIndex(r) ]

OwnOrderAndBarrier(a) ==
    /\ IsPrefix(history[a], SetupStateClasses)
    /\ current[a] # None => current[a] = history[a][Len(history[a])]
    /\ \A i \in 1..Len(completed[a]) :
          completed[a][i] \in DOMAIN RoundOfPhase =>
              /\ RoundOfPhase[completed[a][i]] \in observed[a]
              /\ RoundIndexOfRound[current_round_id]
                    > RoundIndexOfPhase[completed[a][i]]
    /\ \A r \in observed[a] :
          \E i \in 1..Len(completed[a]) :
              /\ completed[a][i] \in DOMAIN RoundOfPhase
              /\ RoundOfPhase[completed[a][i]] = r
    /\ current[a] \in DOMAIN RoundOfPhase =>
          RoundIndexOfRound[current_round_id] >= RoundIndexOfPhase[current[a]]

C20_PhasesDifferOrderHolds ==
    [](\A a \in Agents : OwnOrderAndBarrier(a))

C20_Witness ==
    \E a, b \in Agents :
        /\ current[a] = TransactionHashBehaviour_state_id
        /\ current[b] = EstimateBehaviour_state_id
        /\ EstimateConsensusRound \in observed[a]
        /\ EstimateConsensusRound \notin observed[b]
        /\ OwnOrderAndBarrier(a)
        /\ OwnOrderAndBarrier(b)

=============================================================================
